---- MODULE Spec2Model ----
(***************************************************************************)
(* GoMerkle (package merkletree): the byte codec, the leaf / node hashing  *)
(* scheme, the flat-array tree builder, single proofs, multiproofs and the *)
(* tree validator.                                                         *)
(*                                                                         *)
(* Conventions.                                                            *)
(*  - A Go string, HexString or []byte is the sequence of its bytes        *)
(*    (numbers 0..255); "0x" is <<48, 120>>.                               *)
(*  - A BytesLike / interface{} value is a record [t |-> dynamic type,     *)
(*    d |-> data]: t is "string", "HexString", "bytes", "ints", "uint8",   *)
(*    "uint16", "int" or "struct"; d is a sequence of numbers (the bytes   *)
(*    of text, the one number of an integer, the fields of a struct).      *)
(*  - A Go slice indexed by position (the tree, the value table) is a      *)
(*    function on 0 .. len-1, as in the source.                            *)
(*  - A Go (value, error) result is a record [val |-> ..., err |-> ...],   *)
(*    err = "nil" when there is no error.                                  *)
(***************************************************************************)
EXTENDS Integers, Sequences, FiniteSets, TLC

\* ------------------------------------------------------------------ bounds
\* Largest number of input values of a build.
MaxLeaves == 3

\* Largest number of leaves, and of proof elements, of a multiproof a caller
\* makes by hand; its flags are at most one more.
MaxQueue == 2

\* Largest index the index arithmetic is asked about on its own.
MaxIndex == 100

\* Largest number of bytes, ints or hex digit pairs of a value handed to the
\* codec on its own.
MaxBytes == 2

\* --------------------------------------------------------- program constants
\* A Merkle node is exactly this many bytes (IsValidMerkleNode).
NodeLen == 32

\* ----------------------------------------------------------------- helpers
Min(a, b) == IF a < b THEN a ELSE b

\* length of a Go slice held as a function on 0 .. n-1
len(a) == Cardinality(DOMAIN a)

\* a sequence <<s[1], .., s[n]>> as a Go slice on 0 .. n-1, and back
AsSlice(s) == [i \in 0 .. Len(s) - 1 |-> s[i + 1]]
AsSeq(a) == [i \in 1 .. len(a) |-> a[i - 1]]

\* a sequence given by a function on 1 .. n, as a tuple
Tuple(f) == f \o <<>>

\* a Go slice given by a function on 0 .. n-1, with its elements computed once
Slice(f) ==
  LET t == Tuple([i \in 1 .. len(f) |-> f[i - 1]])
  IN [i \in DOMAIN f |-> t[i + 1]]

Ok(v) == [val |-> v, err |-> "nil"]
Fail(e) == [val |-> <<>>, err |-> e]

\* x := ...; then the rest of the function, which reads x
With(x, Rest(_)) == Rest(x)

\* v, err := ...; if err != nil { return zero, err }; then the rest of the
\* function, which reads v
Try(r, Rest(_)) == IF r.err # "nil" THEN Fail(r.err) ELSE Rest(r.val)

\* the same in a function that returns (bool, error): return false, err
TryBool(r, Rest(_)) == IF r.err # "nil" THEN [val |-> FALSE, err |-> r.err] ELSE Rest(r.val)

\* a slice of results as the result of a loop that returns the first error:
\* the slice of the values, or the error
All(results) ==
  IF \E i \in DOMAIN results : results[i].err # "nil"
  THEN Fail(results[CHOOSE i \in DOMAIN results :
                      /\ results[i].err # "nil"
                      /\ \A j \in DOMAIN results : j < i => results[j].err = "nil"].err)
  ELSE Ok([i \in DOMAIN results |-> results[i].val])

\* typed BytesLike values
Str(d) == [t |-> "string", d |-> d]
HS(d) == [t |-> "HexString", d |-> d]
Bytes(d) == [t |-> "bytes", d |-> d]
Ints(d) == [t |-> "ints", d |-> d]

\* ---------------------------------------------------- encoding/hex, strings
Prefix0x == <<48, 120>>

\* value of an ASCII hex digit, -1 when the byte is no hex digit
HexValOf[c \in 0 .. 255] ==
  IF c >= 48 /\ c <= 57 THEN c - 48
  ELSE IF c >= 97 /\ c <= 102 THEN c - 87
  ELSE IF c >= 65 /\ c <= 70 THEN c - 55
  ELSE -1
HexVal(c) == HexValOf[c]

\* lower-case ASCII hex digit of a nibble
HexDigit(n) == IF n < 10 THEN 48 + n ELSE 87 + n
\* the two digits of every byte
HexOfByte[b \in 0 .. 255] == <<HexDigit(b \div 16), HexDigit(b % 16)>>

\* the bytes that are hex digits, and the strings hex.DecodeString accepts:
\* an even number of hex digits
HexChars == {c \in 0 .. 255 : HexValOf[c] >= 0}
HexValid(s) == Len(s) % 2 = 0 /\ s \in Seq(HexChars)

\* hex.DecodeString: fails on odd length or on a byte that is no hex digit
HexDecodeString(s) ==
  IF ~HexValid(s)
  THEN Fail("invalid hex string")
  ELSE Ok(Tuple([i \in 1 .. Len(s) \div 2 |->
                   16 * HexVal(s[2 * i - 1]) + HexVal(s[2 * i])]))

\* hex.EncodeToString: two lower-case digits per byte
HexEncodeToString(b) ==
  Tuple([i \in 1 .. 2 * Len(b) |-> HexOfByte[b[(i + 1) \div 2]][2 - (i % 2)]])

HasPrefix0x(s) == Len(s) >= 2 /\ s[1] = 48 /\ s[2] = 120
TrimPrefix0x(s) == IF HasPrefix0x(s) THEN SubSeq(s, 3, Len(s)) ELSE s

\* ------------------------------------------------------------------- codec
\* ToBytes: []byte as is; HexString as the string; a string with "0x" is
\* hex-decoded, any other string is its own bytes; []int is truncated to bytes.
ToBytes(value) ==
  CASE value.t = "bytes" -> Ok(value.d)
    [] value.t \in {"HexString", "string"} ->
         IF HasPrefix0x(value.d)
         THEN HexDecodeString(SubSeq(value.d, 3, Len(value.d)))
         ELSE Ok(value.d)
    [] value.t = "ints" -> Ok(Tuple([i \in 1 .. Len(value.d) |-> value.d[i] % 256]))
    [] OTHER -> Fail("unsupported type")

\* ToHex: a string / HexString must be hex after an optional "0x" and is
\* returned with "0x" in front, digits unchanged; bytes are hex-encoded.
ToHex(value) ==
  CASE value.t \in {"string", "HexString"} ->
         IF ~HexValid(TrimPrefix0x(value.d))
         THEN Fail("invalid hex string")
         ELSE Ok(Prefix0x \o TrimPrefix0x(value.d))
    [] value.t = "bytes" -> Ok(Prefix0x \o HexEncodeToString(value.d))
    [] value.t = "ints" -> Ok(Prefix0x \o HexEncodeToString(ToBytes(value).val))
    [] OTHER -> Fail("unsupported type")

\* Concat of two values (the only arity the package uses)
Concat(a, b) ==
  Try(ToBytes(a), LAMBDA x :
  Try(ToBytes(b), LAMBDA y :
    Ok(x \o y)))

\* big.Int.SetString(digits, 16) followed by Cmp, on hex digit strings: the
\* number of a digit string without digits is 0; leading zeros do not count.
LeadingZeros(s) ==
  IF \A i \in 1 .. Len(s) : HexVal(s[i]) = 0 THEN Len(s)
  ELSE (CHOOSE i \in 1 .. Len(s) :
          HexVal(s[i]) # 0 /\ \A j \in 1 .. i - 1 : HexVal(s[j]) = 0) - 1

\* the order of two digit strings of the same length
CmpDigits(x, y) ==
  IF \A i \in 1 .. Len(x) : HexVal(x[i]) = HexVal(y[i]) THEN 0
  ELSE With(CHOOSE i \in 1 .. Len(x) :
              /\ HexVal(x[i]) # HexVal(y[i])
              /\ \A j \in 1 .. i - 1 : HexVal(x[j]) = HexVal(y[j]),
            LAMBDA k : IF HexVal(x[k]) < HexVal(y[k]) THEN -1 ELSE 1)

\* the order of two digit strings without leading zeros
CmpSignificant(x, y) ==
  IF Len(x) < Len(y) THEN -1
  ELSE IF Len(x) > Len(y) THEN 1
  ELSE CmpDigits(x, y)

BigIntCmp(x, y) ==
  CmpSignificant(SubSeq(x, LeadingZeros(x) + 1, Len(x)),
                 SubSeq(y, LeadingZeros(y) + 1, Len(y)))

\* Compare: both operands through ToHex, then as unsigned big integers
Compare(a, b) ==
  Try(ToHex(a), LAMBDA aHex :
  Try(ToHex(b), LAMBDA bHex :
    Ok(BigIntCmp(SubSeq(aHex, 3, Len(aHex)), SubSeq(bHex, 3, Len(bHex))))))

\* ----------------------------------------------------------------- hashing
\* Keccak-256 (sha3.NewLegacyKeccak256) as a collision-free digest of NodeLen
\* bytes: <<checksum, tag, length>> followed by the input itself (tag 1) or,
\* for an input made of whole digests, by the bodies of those digests (tag 2),
\* padded with zeros.  The checksum byte leads, so the numeric order of two
\* digests is unrelated to how they were built.
RECURSIVE WeightedSum(_, _, _)
WeightedSum(b, lo, hi) ==
  IF lo > hi THEN 0
  ELSE IF lo = hi THEN ((2 * lo + 1) * b[lo]) % 256
  ELSE LET mid == (lo + hi) \div 2
       IN (WeightedSum(b, lo, mid) + WeightedSum(b, mid + 1, hi)) % 256

Checksum(b) == (7 + WeightedSum(b, 1, Len(b))) % 256

DigestBody(d) == SubSeq(d, 2, Min(NodeLen, 3 + d[3]))

RECURSIVE ChunkBodies(_)
ChunkBodies(data) ==
  IF Len(data) = 0 THEN <<>>
  ELSE DigestBody(SubSeq(data, 1, NodeLen))
         \o ChunkBodies(SubSeq(data, NodeLen + 1, Len(data)))

\* tag and length in front of the content of a digest
Tagged(tag, content) == <<tag, Len(content)>> \o content

\* the checksum in front, padded with zeros to NodeLen bytes
Digest(body) ==
  With(<<Checksum(body)>> \o body, LAMBDA full :
    Tuple([i \in 1 .. NodeLen |-> IF i <= Len(full) THEN full[i] ELSE 0]))

Keccak256(data) ==
  Digest(IF Len(data) > 0 /\ Len(data) % NodeLen = 0
         THEN Tagged(2, ChunkBodies(data))
         ELSE Tagged(1, data))

\* width in bytes of the fixed-width integer types abiEncodePacked accepts
IntWidth(t) ==
  CASE t \in {"uint8", "int8"} -> 1
    [] t \in {"uint16", "int16"} -> 2
    [] t \in {"uint32", "int32"} -> 4
    [] t \in {"uint64", "int64"} -> 8

RECURSIVE ShiftRightBytes(_, _)
ShiftRightBytes(v, k) == IF k = 0 THEN v ELSE ShiftRightBytes(v \div 256, k - 1)

\* uintToBytes: big-endian bytes at the declared width
uintToBytes(num) ==
  With(IntWidth(num.t), LAMBDA w :
    Tuple([i \in 1 .. w |-> ShiftRightBytes(num.d[1], w - i) % 256]))

\* abiEncodePacked of one argument: text and bytes as they are, fixed-width
\* integers big-endian, every other type (int, uint, HexString, []int,
\* structs, ...) an error
\* abiEncodePacked with a case for every type: what it has no case for is
\* encoded as its content
abiEncodePacked_EveryType(arg) ==
  CASE arg.t \in {"uint8", "uint16", "uint32", "uint64",
                  "int8", "int16", "int32", "int64"} -> Ok(uintToBytes(arg))
    [] OTHER -> Ok(arg.d)

abiEncodePacked(arg) ==
  CASE arg.t = "string" -> Ok(arg.d)
    [] arg.t = "bytes" -> Ok(arg.d)
    [] arg.t \in {"uint8", "uint16", "uint32", "uint64",
                  "int8", "int16", "int32", "int64"} -> Ok(uintToBytes(arg))
    [] OTHER -> Fail("unsupported type in abiEncodePacked")

keccak256HashedData(arg) ==
  Try(abiEncodePacked(arg), LAMBDA encodedData :
    Ok(Keccak256(encodedData)))

\* StandardLeafHash: the hex text of the digest, or the empty HexString when
\* the value cannot be encoded
StandardLeafHash(value) ==
  With(keccak256HashedData(value), LAMBDA encodedPacked :
    IF encodedPacked.err # "nil" THEN <<>>
    ELSE ToHex(Bytes(encodedPacked.val)).val)

\* FormatLeaf (SimpleMerkleTree) is StandardLeafHash
FormatLeaf(value) == StandardLeafHash(value)

\* the less function StandardNodeHash and PrepareMerkleTree give to sort.Slice
Less(x, y) ==
  With(Compare(x, y), LAMBDA result :
    IF result.err # "nil" THEN FALSE ELSE result.val < 0)

\* StandardNodeHash hashing the two nodes in the order they are given
StandardNodeHash_InOrder(a, b) ==
  With(Concat(a, b), LAMBDA concatenated :
    IF concatenated.err # "nil" THEN <<>>
    ELSE ToHex(Bytes(keccak256HashedData(Bytes(concatenated.val)).val)).val)

\* StandardNodeHash: sort.Slice on the two nodes exchanges them exactly when
\* Less(nodes[1], nodes[0]); then Concat, Keccak-256, ToHex.  Any failure
\* gives the empty HexString.
StandardNodeHash(a, b) ==
  With(IF Less(b, a) THEN <<b, a>> ELSE <<a, b>>, LAMBDA nodes :
  With(Concat(nodes[1], nodes[2]), LAMBDA concatenated :
    IF concatenated.err # "nil" THEN <<>>
    ELSE ToHex(Bytes(keccak256HashedData(Bytes(concatenated.val)).val)).val))

\* --------------------------------------------------------- index arithmetic
\* the sibling of a node taken to be the node itself
SiblingIndex_Self(i) == i

\* math.Pow(-1, i % 2)
PowMinusOne(k) == IF k = 0 THEN 1 ELSE -1

\* ParentIndex taking the root for the parent of every node
ParentIndex_Root(i) == 0

\* ParentIndex halving the index itself
ParentIndex_Half(i) == IF i > 0 THEN i \div 2 ELSE 0

\* int(math.Floor((float64(i) - 1) / 2)): the float64 arithmetic is exact for
\* every index an array can have
ParentIndex(i) == IF i > 0 THEN (i - 1) \div 2 ELSE 0
SiblingIndex(i) == IF i > 0 THEN i - PowMinusOne(i % 2) ELSE 0
LeftChildIndex(i) == 2 * i + 1
RightChildIndex(i) == 2 * i + 2

\* IsTreeNode that takes the index one past the end to be in the tree
IsTreeNode_PastEnd(tree, i) == i >= 0 /\ i <= len(tree)

IsTreeNode(tree, i) == i >= 0 /\ i < len(tree)
IsInternalNode(tree, i) == IsTreeNode(tree, LeftChildIndex(i))

\* IsLeafNode taking every node of the array for a leaf
IsLeafNode_AnyNode(tree, i) == IsTreeNode(tree, i)

IsLeafNode(tree, i) == IsTreeNode(tree, i) /\ ~IsInternalNode(tree, i)
CheckLeafNode(tree, i) == IF ~IsLeafNode(tree, i) THEN "ErrNotLeafNode" ELSE "nil"

\* IsValidMerkleNode without the check of the length
IsValidMerkleNode_AnyLength(node) == ToBytes(node).err = "nil"

IsValidMerkleNode(node) ==
  With(ToBytes(node), LAMBDA bytes :
    IF bytes.err # "nil" THEN FALSE ELSE Len(bytes.val) = NodeLen)
CheckValidMerkleNode(node) == IF ~IsValidMerkleNode(node) THEN "ErrInvalidNode" ELSE "nil"

\* ------------------------------------------------------------ tree builder
\* the indices the fill loop of MakeMerkleTree visits from index i: i, i-1,
\* ..., 0
RECURSIVE FillIndices(_)
FillIndices(i) == IF i < 0 THEN <<>> ELSE <<i>> \o FillIndices(i - 1)

\* the body of the fill loop at the indices order[k], order[k+1], ...
RECURSIVE FillAt(_, _, _)
FillAt(tree, order, k) ==
  IF k > Len(order) THEN tree
  ELSE FillAt(
         [tree EXCEPT ![order[k]] =
            StandardNodeHash(HS(tree[LeftChildIndex(order[k])]),
                             HS(tree[RightChildIndex(order[k])]))],
         order, k + 1)

\* the loop of MakeMerkleTree that fills the internal nodes, from index i
\* down to 0
FillInternal(tree, i) == FillAt(tree, FillIndices(i), 1)

\* the fill loop leaving out the last internal node
FillStart_SkipLast(tree, leaves) == len(tree) - len(leaves) - 2

\* the index the fill loop starts at
FillStart(tree, leaves) == len(tree) - len(leaves) - 1

\* MakeMerkleTree without its check for no leaves
MakeMerkleTree_NoEmptyCheck(hashes) ==
  Ok(FillInternal([i \in 0 .. 2 * len(hashes) - 2 |->
                     IF i >= len(hashes) - 1
                     THEN ToHex(hashes[i - (len(hashes) - 1)]).val ELSE <<>>],
                  len(hashes) - 2))

\* MakeMerkleTree(hashes, StandardNodeHash); hashes is a slice of BytesLike
\* the tree array of MakeMerkleTree before the internal nodes are filled:
\* the leaves in the last len(leaves) places
LeavesInPlace(leaves, size) ==
  [i \in 0 .. size - 1 |->
     IF i >= size - len(leaves) THEN leaves[i - (size - len(leaves))] ELSE <<>>]

MakeMerkleTree(hashes) ==
  IF len(hashes) = 0 THEN Fail("ErrEmptyTree")
  ELSE With(Slice([i \in DOMAIN hashes |-> ToHex(hashes[i])]), LAMBDA converted :
         IF \E i \in DOMAIN hashes : converted[i].err # "nil"
         THEN Fail("invalid hash")
         ELSE With([i \in DOMAIN hashes |-> converted[i].val], LAMBDA leaves :
              With(2 * len(leaves) - 1, LAMBDA size :
                With(LeavesInPlace(leaves, size), LAMBDA tree :
                Ok(FillInternal(tree, FillStart(tree, leaves)))))))

\* the permutations of 0 .. n-1
Perms(n) == {p \in [0 .. n - 1 -> 0 .. n - 1] : \A i, j \in 0 .. n - 1 : i # j => p[i] # p[j]}

\* the sort leaves the slice as it was
SortOutcomes_NoSort(hashed) == {[i \in DOMAIN hashed |-> i]}

\* sort.Slice(hashedValues, less): the slice ends in an order in which no
\* element is less than an earlier one; sort.Slice is not stable, so elements
\* that compare equal may end in any relative order.  order[k] is the input
\* position of the element that ends at position k.
SortOutcomes(hashed) ==
  With(Slice([i \in DOMAIN hashed |->
                Slice([j \in DOMAIN hashed |->
                         Less(HS(hashed[i].Hash), HS(hashed[j].Hash))])]),
       LAMBDA less :
         {order \in Perms(len(hashed)) :
            \A i, j \in DOMAIN hashed : i < j => ~less[order[j]][order[i]]})

\* the leaf hash of every input value
HashedInput(values) ==
  Slice([i \in DOMAIN values |-> [Hash |-> StandardLeafHash(values[i])]])

\* the orders PrepareMerkleTree may give the leaves
LeafOrders(values, options) ==
  IF options.SortLeaves
  THEN SortOutcomes(HashedInput(values))
  ELSE {[i \in DOMAIN values |-> i]}

\* PrepareMerkleTree(values, options, StandardLeafHash, StandardNodeHash) with
\* the leaves left by the sort in the given order: the tree and the indexed
\* values
\* the last loop of PrepareMerkleTree: indexedValues[hv.ValueIndex] is the
\* value of hv with the tree index of its leaf
IndexedValues(tree, hashedValues) ==
  [v \in DOMAIN hashedValues |->
     With(CHOOSE k \in DOMAIN hashedValues : hashedValues[k].ValueIndex = v,
          LAMBDA leafIndex :
            [Value |-> hashedValues[leafIndex].Value,
             TreeIndex |-> len(tree) - len(hashedValues) + leafIndex])]

PrepareMerkleTree(values, options, order) ==
  With(Slice([k \in DOMAIN values |->
                [Value |-> values[order[k]],
                 ValueIndex |-> order[k],
                 Hash |-> StandardLeafHash(values[order[k]])]]),
       LAMBDA hashedValues :
  With(MakeMerkleTree([k \in DOMAIN values |-> HS(hashedValues[k].Hash)]),
       LAMBDA made :
         IF made.err # "nil" THEN [tree |-> <<>>, values |-> <<>>, err |-> made.err]
         ELSE [tree |-> made.val,
               values |-> IndexedValues(made.val, hashedValues),
               err |-> "nil"]))

\* NewMerkleTreeOptions(&options): the pointer is never nil at the two
\* constructors, so the options come back as they were given
DefaultOptions == [SortLeaves |-> TRUE]
NewMerkleTreeOptions(options, isNil) == IF isNil THEN DefaultOptions ELSE options

\* the hash lookup of the constructors: each leaf hash to the last input
\* position that has it
BuildHashLookup(indexedValues) ==
  With(Slice([i \in DOMAIN indexedValues |-> StandardLeafHash(indexedValues[i].Value)]),
       LAMBDA hashOf :
         [h \in {hashOf[i] : i \in DOMAIN indexedValues} |->
            CHOOSE i \in DOMAIN indexedValues :
              hashOf[i] = h /\ \A j \in DOMAIN indexedValues : hashOf[j] = h => j <= i])

\* ------------------------------------------------------------ proof engine
\* A slice that is only walked in order (a proof, an index list, a queue) is
\* a sequence.

\* the loop of GetProof: the siblings from index up to the root
RECURSIVE ProofWalk(_, _)
ProofWalk(tree, index) ==
  IF index <= 0 THEN Ok(<<>>)
  ELSE Try(ToHex(tree[SiblingIndex(index)]), LAMBDA value :
       Try(ProofWalk(tree, ParentIndex(index)), LAMBDA rest :
         Ok(<<value>> \o rest)))

\* GetProof(tree, index) of core: tree is a slice of BytesLike
GetProof(tree, index) ==
  With(CheckLeafNode(tree, index), LAMBDA err :
    IF err # "nil" THEN Fail(err) ELSE ProofWalk(tree, index))

\* the fold of ProcessProof over the proof, from element k on
RECURSIVE FoldProof(_, _, _)
FoldProof(result, proof, k) ==
  IF k > Len(proof) THEN Ok(result)
  ELSE Try(ToHex(proof[k]), LAMBDA siblingHex :
         FoldProof(StandardNodeHash(HS(result), HS(siblingHex)), proof, k + 1))

\* ProcessProof(leaf, proof, StandardNodeHash): proof is a sequence of BytesLike
ProcessProof(leaf, proof) ==
  IF CheckValidMerkleNode(leaf) # "nil" THEN Fail("ErrInvalidNode")
  ELSE IF \E k \in 1 .. Len(proof) : CheckValidMerkleNode(proof[k]) # "nil"
  THEN Fail("ErrInvalidNode")
  ELSE Try(ToHex(leaf), LAMBDA result :
       Try(FoldProof(result, proof, 1), LAMBDA folded :
         ToHex(HS(folded))))

\* ------------------------------------------------------- multiproof engine
\* a MultiProof value
MultiProof(leaves, proof, proofFlags) ==
  [Leaves |-> leaves, Proof |-> proof, ProofFlags |-> proofFlags]

\* the loop of GetMultiProof leaving the sibling in the queue when it is the
\* next index
RECURSIVE MultiWalk_KeepSibling(_, _, _, _)
MultiWalk_KeepSibling(tree, stack, proof, proofFlags) ==
  IF Len(stack) > 0 /\ stack[1] > 0
  THEN With(Tail(stack), LAMBDA rest :
       With(SiblingIndex(stack[1]), LAMBDA s :
       With(ParentIndex(stack[1]), LAMBDA p :
         IF Len(rest) > 0 /\ s = rest[1]
         THEN MultiWalk_KeepSibling(tree, rest \o <<p>>, proof, proofFlags \o <<TRUE>>)
         ELSE MultiWalk_KeepSibling(tree, rest \o <<p>>, proof \o <<ToHex(tree[s]).val>>,
                                    proofFlags \o <<FALSE>>))))
  ELSE [err |-> "nil", proof |-> proof, proofFlags |-> proofFlags, stack |-> stack]

\* the loop of GetMultiProof: stack is the queue of indices; the result also
\* carries the queue the loop stopped with
RECURSIVE MultiWalk(_, _, _, _)
MultiWalk(tree, stack, proof, proofFlags) ==
  IF Len(stack) > 0 /\ stack[1] > 0
  THEN With(Tail(stack), LAMBDA rest :
       With(SiblingIndex(stack[1]), LAMBDA s :
       With(ParentIndex(stack[1]), LAMBDA p :
         IF Len(rest) > 0 /\ s = rest[1]
         THEN MultiWalk(tree, Tail(rest) \o <<p>>, proof, proofFlags \o <<TRUE>>)
         ELSE With(ToHex(tree[s]), LAMBDA proofVal :
                IF proofVal.err # "nil"
                THEN [err |-> proofVal.err, proof |-> <<>>, proofFlags |-> <<>>,
                      stack |-> rest]
                ELSE MultiWalk(tree, rest \o <<p>>, proof \o <<proofVal.val>>,
                               proofFlags \o <<FALSE>>)))))
  ELSE [err |-> "nil", proof |-> proof, proofFlags |-> proofFlags, stack |-> stack]

\* the loop of GetMultiProof once more, keeping what the proof does not: the
\* queue before every iteration (and the one the loop stops with) and the
\* parents pushed
RECURSIVE WalkTrace(_, _, _)
WalkTrace(stack, queues, pushed) ==
  IF Len(stack) > 0 /\ stack[1] > 0
  THEN With(Tail(stack), LAMBDA rest :
       With(SiblingIndex(stack[1]), LAMBDA s :
       With(ParentIndex(stack[1]), LAMBDA p :
         WalkTrace((IF Len(rest) > 0 /\ s = rest[1] THEN Tail(rest) ELSE rest) \o <<p>>,
                   queues \o <<stack>>, pushed \o <<p>>))))
  ELSE [queues |-> queues \o <<stack>>, pushed |-> pushed]

\* GetMultiProof refusing every list that is not in strictly descending order
GetMultiProof_DescendingOnly(tree, indices) ==
  IF Len(indices) = 0 THEN Fail("ErrEmptyTree")
  ELSE IF \E i \in 1 .. Len(indices) - 1 : indices[i] <= indices[i + 1]
  THEN Fail("ErrInvalidMultiProof")
  ELSE With(MultiWalk(tree, indices, <<>>, <<>>), LAMBDA walk :
         Ok(MultiProof([i \in 1 .. Len(indices) |-> ToHex(tree[indices[i]]).val],
                       walk.proof, walk.proofFlags)))

\* GetMultiProof(tree, indices): tree is a slice of BytesLike, indices a
\* sequence of positions of the tree
GetMultiProof(tree, indices) ==
  IF Len(indices) = 0 THEN Fail("ErrEmptyTree")
  ELSE With(MultiWalk(tree, indices, <<>>, <<>>), LAMBDA walk :
       With(Tuple([i \in 1 .. Len(indices) |-> ToHex(tree[indices[i]])]),
            LAMBDA leavesHex :
              IF walk.err # "nil" THEN Fail(walk.err)
              ELSE IF \E i \in 1 .. Len(indices) : leavesHex[i].err # "nil"
              THEN Fail("invalid hex string")
              ELSE Ok(MultiProof([i \in 1 .. Len(indices) |-> leavesHex[i].val],
                                 walk.proof, walk.proofFlags))))

\* one round of the loop of ProcessMultiProof after a and b were taken from
\* the queue and the proof
HashPair(a, b, stack, proof) ==
  With(ToHex(HS(a)), LAMBDA leafA :
  With(ToHex(HS(b)), LAMBDA leafB :
    IF leafA.err # "nil" THEN [err |-> leafA.err, stack |-> stack, proof |-> proof]
    ELSE IF leafB.err # "nil" THEN [err |-> leafB.err, stack |-> stack, proof |-> proof]
    ELSE [err |-> "nil",
          stack |-> stack \o <<StandardNodeHash(HS(leafA.val), HS(leafB.val))>>,
          proof |-> proof]))

\* the loop of ProcessMultiProof over the flags, from flag k on
RECURSIVE MultiFold(_, _, _, _)
MultiFold(stack, proof, flags, k) ==
  IF k > Len(flags) THEN [err |-> "nil", stack |-> stack, proof |-> proof]
  ELSE IF Len(stack) < 1 \/ (~flags[k] /\ Len(proof) < 1)
  THEN [err |-> "ErrInvalidMultiProof", stack |-> stack, proof |-> proof]
  ELSE IF flags[k] /\ Len(stack) < 2
  THEN [err |-> "ErrInvalidMultiProof", stack |-> Tail(stack), proof |-> proof]
  ELSE With(IF flags[k] THEN HashPair(stack[1], stack[2], Tail(Tail(stack)), proof)
            ELSE HashPair(stack[1], proof[1], Tail(stack), Tail(proof)),
            LAMBDA round :
              IF round.err # "nil" THEN round
              ELSE MultiFold(round.stack, round.proof, flags, k + 1))

\* ProcessMultiProof without the count of what remains after the last flag
ProcessMultiProof_AnyRemainder(multiproof) ==
  With(MultiFold(multiproof.Leaves, multiproof.Proof, multiproof.ProofFlags, 1),
       LAMBDA end :
         IF end.err # "nil" THEN Fail(end.err)
         ELSE IF Len(end.stack) >= 1 THEN Ok(end.stack[1])
         ELSE IF Len(end.proof) >= 1 THEN Ok(end.proof[1])
         ELSE Fail("ErrInvalidMultiProof"))

\* ProcessMultiProof(multiproof, StandardNodeHash)
ProcessMultiProof(multiproof) ==
  With(MultiFold(multiproof.Leaves, multiproof.Proof, multiproof.ProofFlags, 1),
       LAMBDA end :
         IF end.err # "nil" THEN Fail(end.err)
         ELSE IF Len(end.stack) + Len(end.proof) # 1 THEN Fail("ErrInvalidMultiProof")
         ELSE IF Len(end.stack) = 1 THEN Ok(end.stack[1])
         ELSE Ok(end.proof[1]))

\* ------------------------------------------------------------------ inputs
\* The element type T of a tree and the values of that type the model draws
\* from.  "BytesLike" is SimpleMerkleTree (T = interface{}: the values keep
\* their own dynamic types); the others are StandardMerkleTree[T].
ElemTypes == {"string", "uint16", "struct", "BytesLike"}

Text(c) == Str(<<c>>)
User(id) == [t |-> "struct", d |-> <<id>>]
Uint16(v) == [t |-> "uint16", d |-> <<v>>]
IntArg(i) == [t |-> "int", d |-> <<i>>]

\* values a tree is built from
InputValues(T) ==
  CASE T = "string" -> {Text(97), Text(98), Text(99)}
    [] T = "uint16" -> {Uint16(258)}
    [] T = "struct" -> {User(1)}
    [] T = "BytesLike" -> {Text(97), HS(<<48, 120, 49, 49>>)}

\* values of type T a caller may ask about (some are in no tree)
ArgValues(T) ==
  CASE T = "string" -> InputValues(T)
    [] T = "uint16" -> InputValues(T) \cup {Uint16(1)}
    [] T = "struct" -> InputValues(T) \cup {User(2)}
    [] T = "BytesLike" -> InputValues(T) \cup {Bytes(<<97>>), Text(98), Ints(<<1>>)}

SlicesOf(S) == UNION {[0 .. n - 1 -> S] : n \in 0 .. MaxLeaves}

\* ------------------------------------------------------------------- state
VARIABLES
  typeT,      \* element type of the tree (fixes the constructor)
  input,      \* the values slice given to the constructor
  options,    \* the MerkleTreeOptions given to the constructor
  built,      \* "no" before the constructor ran, then "ok" or its error
  Tree,       \* MerkleTreeImpl.Tree
  Values,     \* MerkleTreeImpl.Values
  HashLookup, \* MerkleTreeImpl.HashLookup
  held,       \* what the caller holds from the last GetProof / GetMultiProof
  res         \* the last call and its result

vars == <<typeT, input, options, built, Tree, Values, HashLookup, held, res>>

NoCall == [op |-> "none", arg |-> <<>>, val |-> <<>>, err |-> "nil"]

Init ==
  /\ typeT \in ElemTypes
  /\ input \in SlicesOf(InputValues(typeT))
  /\ options \in [SortLeaves : BOOLEAN]
  /\ built = "no"
  /\ Tree = <<>>
  /\ Values = <<>>
  /\ HashLookup = <<>>
  /\ held = NoCall
  /\ res = NoCall

\* what a constructor leaves: the tree, the indexed values and the hash
\* lookup, or the error of PrepareMerkleTree
Constructed(prepared) ==
  /\ built' = IF prepared.err = "nil" THEN "ok" ELSE prepared.err
  /\ Tree' = prepared.tree
  /\ Values' = prepared.values
  /\ HashLookup' = IF prepared.err = "nil" THEN BuildHashLookup(prepared.values) ELSE <<>>
  /\ res' = [op |-> "New", arg |-> <<>>, val |-> <<>>, err |-> prepared.err]
  /\ UNCHANGED <<typeT, input, options, held>>

\* the body shared by the two constructors: options through
\* NewMerkleTreeOptions, PrepareMerkleTree, then the hash lookup
Construct ==
  \E order \in LeafOrders(input, NewMerkleTreeOptions(options, FALSE)) :
    Constructed(PrepareMerkleTree(input, NewMerkleTreeOptions(options, FALSE), order))

NewStandardMerkleTree ==
  /\ built = "no"
  /\ typeT # "BytesLike"
  /\ Construct

NewSimpleMerkleTree ==
  /\ built = "no"
  /\ typeT = "BytesLike"
  /\ Construct

\* ---------------------------------------------------------- MerkleTreeImpl
Root == IF len(Tree) = 0 THEN <<>> ELSE Tree[0]

\* getLeafIndex reading the hash lookup without looking at whether the hash is
\* a key of it: a hash that is none reads as position 0
getLeafIndex_NoExistsCheck(leaf) ==
  IF leaf.t = "int"
  THEN IF leaf.d[1] < 0 \/ leaf.d[1] >= len(Values)
       THEN [val |-> -1, err |-> "ErrInvalidIndex"]
       ELSE Ok(leaf.d[1])
  ELSE With(StandardLeafHash(leaf), LAMBDA hashedLeaf :
         Ok(IF hashedLeaf \in DOMAIN HashLookup THEN HashLookup[hashedLeaf] ELSE 0))

\* getLeafIndex: an int is an input position, anything else is looked up by
\* its leaf hash
getLeafIndex(leaf) ==
  IF leaf.t = "int"
  THEN IF leaf.d[1] < 0 \/ leaf.d[1] >= len(Values)
       THEN [val |-> -1, err |-> "ErrInvalidIndex"]
       ELSE Ok(leaf.d[1])
  ELSE With(StandardLeafHash(leaf), LAMBDA hashedLeaf :
         IF hashedLeaf \in DOMAIN HashLookup
         THEN Ok(HashLookup[hashedLeaf])
         ELSE [val |-> -1, err |-> "ErrValueNotFound"])

validateValueAt(index) ==
  IF index < 0 \/ index >= len(Values) THEN "ErrInvalidIndex"
  ELSE IF StandardLeafHash(Values[index].Value) # Tree[Values[index].TreeIndex]
  THEN "value mismatch"
  ELSE "nil"

IsValidMerkleTree(tree) ==
  IF len(tree) = 0 THEN FALSE
  ELSE \A i \in DOMAIN tree :
         RightChildIndex(i) < len(tree) =>
           StandardNodeHash(HS(tree[LeftChildIndex(i)]), HS(tree[RightChildIndex(i)]))
             = tree[i]

LeafHashFromInput(leaf) ==
  IF leaf.t = "int"
  THEN IF leaf.d[1] < 0 \/ leaf.d[1] >= len(Values) THEN Fail("ErrInvalidIndex")
       ELSE Ok(StandardLeafHash(Values[leaf.d[1]].Value))
  ELSE Ok(StandardLeafHash(leaf))

\* MerkleTreeImpl.GetProof
Impl_GetProof(leaf) ==
  Try(getLeafIndex(leaf), LAMBDA valueIndex :
    With(validateValueAt(valueIndex), LAMBDA err :
      IF err # "nil" THEN Fail(err)
      ELSE Try(All([i \in DOMAIN Tree |-> ToBytes(HS(Tree[i]))]), LAMBDA bytesTree :
             GetProof([i \in DOMAIN Tree |-> Bytes(bytesTree[i])],
                      Values[valueIndex].TreeIndex))))

\* MerkleTreeImpl.Verify: proof is a sequence of HexString
Impl_Verify(leaf, proof) ==
  TryBool(All(Tuple([k \in 1 .. Len(proof) |-> ToBytes(HS(proof[k]))])), LAMBDA bytesProof :
  TryBool(LeafHashFromInput(leaf), LAMBDA leafHash :
  TryBool(ProcessProof(HS(leafHash), [k \in 1 .. Len(proof) |-> Bytes(bytesProof[k])]),
          LAMBDA computedRoot :
            Ok(computedRoot = Root))))

\* the error of the first value that validateValueAt rejects, if any
FirstError(errs) ==
  IF \E i \in DOMAIN errs : errs[i] # "nil"
  THEN errs[CHOOSE i \in DOMAIN errs :
              errs[i] # "nil" /\ \A j \in DOMAIN errs : j < i => errs[j] = "nil"]
  ELSE "nil"

\* Validate looking at the values only
Impl_Validate_ValuesOnly ==
  FirstError(Slice([i \in DOMAIN Values |-> validateValueAt(i)]))

\* MerkleTreeImpl.Validate
Impl_Validate ==
  With(FirstError(Slice([i \in DOMAIN Values |-> validateValueAt(i)])), LAMBDA err :
    IF err # "nil" THEN err
    ELSE IF ~IsValidMerkleTree(Tree) THEN "merkle tree structure is invalid"
    ELSE "nil")

\* VerifyStandardMerkleTree / VerifySimpleMerkleTree(root, leaf, proof, nil):
\* root is BytesLike, proof a sequence of BytesLike
VerifyStandalone(root, leaf, proof) ==
  TryBool(ProcessProof(HS(StandardLeafHash(leaf)), proof), LAMBDA computedRoot :
  TryBool(ToHex(HS(computedRoot)), LAMBDA computedRootVal :
  TryBool(ToHex(root), LAMBDA rootVal :
    Ok(computedRootVal = rootVal))))

\* StandardMerkleTree.Dump: the format, the tree and the indexed values
StandardDump ==
  [Format |-> "standard-v1",
   Tree |-> Tree,
   Values |-> [i \in DOMAIN Values |->
                 [Value |-> Values[i].Value, TreeIndex |-> Values[i].TreeIndex]]]

\* SimpleMerkleTree.Dump
SimpleDump ==
  [Format |-> "simple-v1",
   Tree |-> Tree,
   Values |-> [i \in DOMAIN Values |->
                 [Value |-> Values[i].Value, TreeIndex |-> Values[i].TreeIndex]],
   Hash |-> "custom"]

\* a call and what it returned
Returned(op, arg, r) == [op |-> op, arg |-> arg, val |-> r.val, err |-> r.err]

\* ----------------------------------------------------------------- callers
\* A caller constructs a tree, then makes one query on it, then verifies with
\* what the query returned.
\* what a caller may pass as the leaf of GetProof / Verify: a value of type T
\* or an int
Positions == -1 .. len(input)
LeafArgs == ArgValues(typeT) \cup {IntArg(i) : i \in Positions}

CallGetProof ==
  /\ built = "ok"
  /\ res.op = "New"
  /\ \E leaf \in LeafArgs : held' = Returned("GetProof", leaf, Impl_GetProof(leaf))
  /\ res' = NoCall
  /\ UNCHANGED <<typeT, input, options, built, Tree, Values, HashLookup>>

\* Verify with the proof the caller holds
CallVerify ==
  /\ built = "ok"
  /\ held.op = "GetProof" /\ held.err = "nil"
  /\ res.op = "none"
  /\ \E leaf \in LeafArgs : res' = Returned("Verify", leaf, Impl_Verify(leaf, held.val))
  /\ UNCHANGED <<typeT, input, options, built, Tree, Values, HashLookup, held>>

\* hex text with the digits a-f in upper case
UpperHex(s) == [i \in 1 .. Len(s) |-> IF s[i] >= 97 /\ s[i] <= 102 THEN s[i] - 32 ELSE s[i]]

\* the representations in which a caller may hand a root to the standalone
\* verification: the HexString a tree returns, the same text as a string with
\* upper-case digits, the raw bytes
RootForms(root) ==
  {HS(root), Str(Prefix0x \o UpperHex(TrimPrefix0x(root)))}
    \cup (IF ToBytes(HS(root)).err = "nil" THEN {Bytes(ToBytes(HS(root)).val)} ELSE {})

\* a call of the standalone verification and what it returned
ReturnedStandalone(root, leaf, r) ==
  [op |-> "VerifyStandalone", arg |-> leaf, root |-> root, val |-> r.val, err |-> r.err]

\* the standalone verification against the root of the tree in one of its
\* representations, with the proof the caller holds
CallVerifyStandalone ==
  /\ built = "ok"
  /\ held.op = "GetProof" /\ held.err = "nil"
  /\ res.op = "none"
  /\ \E leaf \in ArgValues(typeT) :
       \E root \in RootForms(Root) :
         res' = ReturnedStandalone(root, leaf,
                  VerifyStandalone(root, leaf,
                                   [k \in 1 .. Len(held.val) |-> HS(held.val[k])]))
  /\ UNCHANGED <<typeT, input, options, built, Tree, Values, HashLookup, held>>

\* Validate emptying the hash lookup on its way
CallValidate_DropsLookup ==
  /\ built = "ok"
  /\ res.op = "New"
  /\ held' = NoCall
  /\ res' = [op |-> "Validate", arg |-> <<>>, val |-> <<>>, err |-> Impl_Validate]
  /\ HashLookup' = <<>>
  /\ UNCHANGED <<typeT, input, options, built, Tree, Values>>

CallValidate ==
  /\ built = "ok"
  /\ res.op = "New"
  /\ held' = NoCall
  /\ res' = [op |-> "Validate", arg |-> <<>>, val |-> <<>>, err |-> Impl_Validate]
  /\ UNCHANGED <<typeT, input, options, built, Tree, Values, HashLookup>>

Next ==
  \/ NewStandardMerkleTree
  \/ NewSimpleMerkleTree
  \/ CallGetProof
  \/ CallVerify
  \/ CallVerifyStandalone
  \/ CallValidate

Spec == Init /\ [][Next]_vars

\* ------------------------------------------------- callers of the multiproofs
\* The multiproof functions of core work on the node array alone, so the trees
\* are built with the leaves in input order: every arrangement of leaf hashes
\* a sorted build gives is also the arrangement of some input order.
InitMulti ==
  /\ Init
  /\ ~options.SortLeaves

\* the tree positions of the leaves
LeafPositions == {i \in DOMAIN Tree : IsLeafNode(Tree, i)}

\* the lists of at most n elements of S, in every order, repeats included
ListsUpTo(S, n) == UNION {[1 .. k -> S] : k \in 0 .. n}

\* the index lists a caller passes to GetMultiProof: leaf positions in any
\* order, with or without repeats, or none
IndexLists == ListsUpTo(LeafPositions, len(input))

CallGetMultiProof ==
  /\ built = "ok"
  /\ res.op = "New"
  /\ \E indices \in IndexLists :
       held' = Returned("GetMultiProof", indices,
                        GetMultiProof([i \in DOMAIN Tree |-> HS(Tree[i])], indices))
  /\ res' = NoCall
  /\ UNCHANGED <<typeT, input, options, built, Tree, Values, HashLookup>>

\* ProcessMultiProof with the multiproof the caller holds
CallProcessMultiProof ==
  /\ built = "ok"
  /\ held.op = "GetMultiProof" /\ held.err = "nil"
  /\ res.op = "none"
  /\ res' = Returned("ProcessMultiProof", <<>>, ProcessMultiProof(held.val))
  /\ UNCHANGED <<typeT, input, options, built, Tree, Values, HashLookup, held>>

NextMulti ==
  \/ NewStandardMerkleTree
  \/ NewSimpleMerkleTree
  \/ CallGetMultiProof
  \/ CallProcessMultiProof

SpecMulti == InitMulti /\ [][NextMulti]_vars

\* ------------------------------------------------ callers building two trees
\* A caller builds a tree from a reordering of the values, with the same
\* options, and keeps its root; then builds the tree from the values.
Reorderings(values) == {[i \in DOMAIN values |-> values[p[i]]] : p \in Perms(len(values))}

\* the root of the tree built from the reordered values, or the error
RootOf(permuted, prepared) ==
  [op |-> "NewOnPermutation", arg |-> permuted,
   val |-> IF prepared.err = "nil" THEN prepared.tree[0] ELSE <<>>,
   err |-> prepared.err]

NewOnPermutation ==
  /\ built = "no"
  /\ held.op = "none"
  /\ \E permuted \in Reorderings(input) :
       \E order \in LeafOrders(permuted, NewMerkleTreeOptions(options, FALSE)) :
         held' = RootOf(permuted,
                        PrepareMerkleTree(permuted, NewMerkleTreeOptions(options, FALSE),
                                          order))
  /\ UNCHANGED <<typeT, input, options, built, Tree, Values, HashLookup, res>>

NextOrder ==
  \/ NewOnPermutation
  \/ NewStandardMerkleTree
  \/ NewSimpleMerkleTree

SpecOrder == Init /\ [][NextOrder]_vars

\* ------------------------------------------------- callers of the node hash
\* 32-byte nodes in the representations BytesLike admits: a 0x hex string, a
\* byte slice, an int slice, a string of 32 characters.
Repeat(x, n) == [i \in 1 .. n |-> x]
HexNode(c) == HS(Prefix0x \o Repeat(c, 2 * NodeLen))
NodeSamples ==
  {HexNode(49), HexNode(50), HexNode(97), HexNode(65),
   Str(Prefix0x \o Repeat(51, 2 * NodeLen)),
   Bytes(Repeat(17, NodeLen)), Bytes(Repeat(255, NodeLen)),
   Ints(Repeat(34, NodeLen)),
   Str(Repeat(97, NodeLen)), Str(Repeat(65, NodeLen)),
   Str(Repeat(121, NodeLen)), Str(Repeat(122, NodeLen))}

InitHash ==
  /\ typeT = "BytesLike"
  /\ input \in [0 .. 1 -> NodeSamples]
  /\ options = DefaultOptions
  /\ built = "no"
  /\ Tree = <<>>
  /\ Values = <<>>
  /\ HashLookup = <<>>
  /\ held = NoCall
  /\ res = NoCall

\* StandardNodeHash on the two nodes, and on the two nodes exchanged
CallStandardNodeHash ==
  /\ res.op = "none"
  /\ res' = [op |-> "StandardNodeHash", arg |-> <<>>,
             val |-> <<StandardNodeHash(input[0], input[1]),
                       StandardNodeHash(input[1], input[0])>>,
             err |-> "nil"]
  /\ UNCHANGED <<typeT, input, options, built, Tree, Values, HashLookup, held>>

NextHash == CallStandardNodeHash

SpecHash == InitHash /\ [][NextHash]_vars

\* ------------------------------------------ callers of the core proof engine
\* A caller of core takes the node array of a built tree, asks GetProof for an
\* index of its choice, and hands a leaf and a proof to ProcessProof.

\* the indices a caller passes to GetProof: every index of the array, one
\* below and one past it
CoreIndices == -1 .. len(Tree)

\* values that are no 32-byte node: one byte of hex, 31 and 33 bytes, text
\* that is no hex, the empty HexString, a value that is not BytesLike
BadNodes ==
  {Str(<<48, 120, 49, 49>>), Bytes(Repeat(17, NodeLen - 1)), Bytes(Repeat(17, NodeLen + 1)),
   Str(<<48, 120, 122, 122>>), HS(<<>>), Uint16(1)}

\* the leaves a caller passes to ProcessProof with the proof of index i: the
\* node at i, the leaf hash of the value placed there, or a bad node
CoreLeaves(i) ==
  {HS(Tree[i])}
    \cup {HS(StandardLeafHash(Values[v].Value)) :
            v \in {w \in DOMAIN Values : Values[w].TreeIndex = i}}
    \cup BadNodes

\* the proofs a caller passes to ProcessProof: the proof it holds, that proof
\* with one element replaced by a bad node, or with a bad node appended
CoreProofs(proof) ==
  With([k \in 1 .. Len(proof) |-> HS(proof[k])], LAMBDA nodes :
    {nodes}
      \cup {[nodes EXCEPT ![k] = bad] :
              k \in 1 .. Len(proof), bad \in {Bytes(Repeat(17, NodeLen - 1)), HS(<<>>)}}
      \cup {nodes \o <<bad>> : bad \in {Str(<<48, 120, 49, 49>>)}})

CallCoreGetProof ==
  /\ built = "ok"
  /\ res.op = "New"
  /\ \E index \in CoreIndices :
       held' = Returned("CoreGetProof", IntArg(index),
                        GetProof([i \in DOMAIN Tree |-> HS(Tree[i])], index))
  /\ res' = NoCall
  /\ UNCHANGED <<typeT, input, options, built, Tree, Values, HashLookup>>

\* a call of ProcessProof and what it returned
ReturnedProcessProof(leaf, proof, r) ==
  [op |-> "ProcessProof", arg |-> leaf, proof |-> proof, val |-> r.val, err |-> r.err]

CallProcessProof ==
  /\ built = "ok"
  /\ held.op = "CoreGetProof" /\ held.err = "nil"
  /\ res.op = "none"
  /\ \E leaf \in CoreLeaves(held.arg.d[1]) :
       \E proof \in CoreProofs(held.val) :
         res' = ReturnedProcessProof(leaf, proof, ProcessProof(leaf, proof))
  /\ UNCHANGED <<typeT, input, options, built, Tree, Values, HashLookup, held>>

NextCore ==
  \/ NewStandardMerkleTree
  \/ NewSimpleMerkleTree
  \/ CallCoreGetProof
  \/ CallProcessProof

SpecCore == Init /\ [][NextCore]_vars

\* ------------------------------------------- callers of ProcessMultiProof
\* ProcessMultiProof takes any MultiProof value: a caller makes one by hand
\* from a few HexStrings, two of them 32-byte nodes and one no hex text.
MadeNodes == {HexNode(49).d, HexNode(50).d, <<122, 122>>}

MadeMultiProofs ==
  {MultiProof(leaves, proof, proofFlags) :
     leaves \in ListsUpTo(MadeNodes, MaxQueue),
     proof \in ListsUpTo(MadeNodes, MaxQueue),
     proofFlags \in ListsUpTo(BOOLEAN, MaxQueue + 1)}

InitProcess ==
  /\ typeT = "BytesLike"
  /\ input = <<>>
  /\ options = DefaultOptions
  /\ built = "no"
  /\ Tree = <<>>
  /\ Values = <<>>
  /\ HashLookup = <<>>
  /\ \E multiproof \in MadeMultiProofs :
       held = [op |-> "MultiProof", arg |-> <<>>, val |-> multiproof, err |-> "nil"]
  /\ res = NoCall

\* ProcessMultiProof with the multiproof the caller made
CallProcessMadeMultiProof ==
  /\ held.op = "MultiProof"
  /\ res.op = "none"
  /\ res' = Returned("ProcessMultiProof", <<>>, ProcessMultiProof(held.val))
  /\ UNCHANGED <<typeT, input, options, built, Tree, Values, HashLookup, held>>

NextProcess == CallProcessMadeMultiProof

SpecProcess == InitProcess /\ [][NextProcess]_vars

\* ------------------------------------------- callers of the index arithmetic
\* The four index functions are exported and pure: a caller asks about one
\* index.
InitIndex ==
  /\ typeT = "BytesLike"
  /\ input = <<>>
  /\ options = DefaultOptions
  /\ built = "no"
  /\ Tree = <<>>
  /\ Values = <<>>
  /\ HashLookup = <<>>
  /\ \E i \in 0 .. MaxIndex :
       held = [op |-> "Index", arg |-> IntArg(i), val |-> <<>>, err |-> "nil"]
  /\ res = NoCall

\* ParentIndex, SiblingIndex, LeftChildIndex and RightChildIndex of the index
CallIndexArithmetic ==
  /\ held.op = "Index"
  /\ res.op = "none"
  /\ res' = [op |-> "IndexArithmetic", arg |-> held.arg,
             val |-> [parent |-> ParentIndex(held.arg.d[1]),
                      sibling |-> SiblingIndex(held.arg.d[1]),
                      left |-> LeftChildIndex(held.arg.d[1]),
                      right |-> RightChildIndex(held.arg.d[1])],
             err |-> "nil"]
  /\ UNCHANGED <<typeT, input, options, built, Tree, Values, HashLookup, held>>

NextIndex == CallIndexArithmetic

SpecIndex == InitIndex /\ [][NextIndex]_vars

\* ----------------------------------------------- callers of the validator
\* Tree and Values are exported fields, and Dump hands out the tree slice
\* itself: a caller can hold a MerkleTreeImpl whose array is not what a
\* constructor built, and ask Validate about it.  The fields a caller sets
\* keep every TreeIndex inside the array.

\* the arrays a caller makes from the tree: one node overwritten with the
\* root or the last node, or the last node appended once more
AlteredTrees ==
  {[Tree EXCEPT ![i] = Tree[j]] : i \in DOMAIN Tree, j \in {0, len(Tree) - 1}}
    \cup {[k \in 0 .. len(Tree) |-> IF k < len(Tree) THEN Tree[k] ELSE Tree[len(Tree) - 1]]}

\* the value tables a caller makes: one TreeIndex set to another place
AlteredValues ==
  {[Values EXCEPT ![v].TreeIndex = t] : v \in DOMAIN Values, t \in DOMAIN Tree}

SetFields ==
  /\ built = "ok"
  /\ res.op = "New"
  /\ held.op = "none"
  /\ \/ \E tree \in AlteredTrees : Tree' = tree /\ Values' = Values
     \/ \E values \in AlteredValues : Tree' = Tree /\ Values' = values
     \/ Tree' = <<>> /\ Values' = <<>>
  /\ held' = [op |-> "SetFields", arg |-> <<>>, val |-> <<>>, err |-> "nil"]
  /\ UNCHANGED <<typeT, input, options, built, HashLookup, res>>

NextValidate ==
  \/ NewStandardMerkleTree
  \/ NewSimpleMerkleTree
  \/ SetFields
  \/ CallValidate

SpecValidate == Init /\ [][NextValidate]_vars

\* ------------------------------------------ callers making call after call
\* A caller keeps a built tree and makes any sequence of calls on it: after a
\* round of calls it lets go of what it holds and starts another round.
InitFrame ==
  /\ Init
  /\ typeT \in {"uint16", "struct"}

CallRoot ==
  /\ built = "ok"
  /\ res.op = "New"
  /\ held' = NoCall
  /\ res' = [op |-> "Root", arg |-> <<>>, val |-> Root, err |-> "nil"]
  /\ UNCHANGED <<typeT, input, options, built, Tree, Values, HashLookup>>

CallDump ==
  /\ built = "ok"
  /\ res.op = "New"
  /\ held' = NoCall
  /\ res' = [op |-> "Dump", arg |-> <<>>,
             val |-> IF typeT = "BytesLike" THEN SimpleDump ELSE StandardDump,
             err |-> "nil"]
  /\ UNCHANGED <<typeT, input, options, built, Tree, Values, HashLookup>>

\* the caller lets go of the results it holds
NextRound ==
  /\ built = "ok"
  /\ res.op # "New"
  /\ held' = NoCall
  /\ res' = [op |-> "New", arg |-> <<>>, val |-> <<>>, err |-> "nil"]
  /\ UNCHANGED <<typeT, input, options, built, Tree, Values, HashLookup>>

NextFrame ==
  \/ NewStandardMerkleTree
  \/ CallRoot
  \/ CallGetProof
  \/ CallVerify
  \/ CallValidate
  \/ CallDump
  \/ CallGetMultiProof
  \/ CallProcessMultiProof
  \/ NextRound

SpecFrame == InitFrame /\ [][NextFrame]_vars

\* ---------------------------------------------------- callers of the codec
\* ToBytes and ToHex are exported and pure: a caller hands them one BytesLike
\* value - a byte slice, an int slice, or text (with or without "0x", hex
\* digits in either case, or no hex at all) as string or HexString.
CodecBytes == {0, 97, 171, 255}
CodecInts == {0, 97, 255, 300}
CodecChars == {48, 49, 97, 65, 102, 70, 122}

CodecSamples ==
  {Bytes(b) : b \in ListsUpTo(CodecBytes, MaxBytes)}
    \cup {Ints(n) : n \in ListsUpTo(CodecInts, MaxBytes)}
    \cup {Str(x) : x \in ListsUpTo(CodecChars, MaxBytes)}
    \cup {Str(Prefix0x \o x) : x \in ListsUpTo(CodecChars, MaxBytes)}
    \cup {HS(Prefix0x \o x) : x \in ListsUpTo(CodecChars, MaxBytes)}

InitCodec ==
  /\ typeT = "BytesLike"
  /\ input = <<>>
  /\ options = DefaultOptions
  /\ built = "no"
  /\ Tree = <<>>
  /\ Values = <<>>
  /\ HashLookup = <<>>
  /\ \E v \in CodecSamples :
       held = [op |-> "Value", arg |-> v, val |-> <<>>, err |-> "nil"]
  /\ res = NoCall

\* ToHex and ToBytes of the value, and ToBytes of what ToHex returned
CallCodec ==
  /\ held.op = "Value"
  /\ res.op = "none"
  /\ res' = [op |-> "Codec", arg |-> held.arg,
             val |-> [hex |-> ToHex(held.arg),
                      bytes |-> ToBytes(held.arg),
                      back |-> ToBytes(HS(ToHex(held.arg).val))],
             err |-> "nil"]
  /\ UNCHANGED <<typeT, input, options, built, Tree, Values, HashLookup, held>>

NextCodec == CallCodec

SpecCodec == InitCodec /\ [][NextCodec]_vars

\* ================================================================ properties
InputValueSet == {input[i] : i \in DOMAIN input}

\* the leaf hashes stored at the leaf positions of the tree
LeafHashesOfTree == {Tree[i] : i \in {j \in DOMAIN Tree : IsLeafNode(Tree, j)}}

\* C1: single-proof round trip.  For every built tree and every input value v,
\* GetProof(v) returns a proof, and Verify(v, that proof) is true.
C1_SingleProofRoundTrip ==
  /\ (held.op = "GetProof" /\ held.arg \in InputValueSet) => held.err = "nil"
  /\ (res.op = "Verify" /\ res.arg = held.arg /\ held.arg \in InputValueSet)
       => (res.err = "nil" /\ res.val)

\* C2: for any sequence of n >= 1 values the constructor accepts, custom
\* structs included, building the tree and then calling Validate returns no
\* error.
C2_BuildThenValidate ==
  res.op = "Validate" => res.err = "nil"

\* C3: with SortLeaves enabled, a build over a reordering of the values and the
\* build over the values give the same root.
C3_SortedRootIgnoresOrder ==
  (built = "ok" /\ held.op = "NewOnPermutation" /\ options.SortLeaves)
    => (held.err = "nil" /\ held.val = Root)

\* the sort moved a leaf, the two builds took the values in different orders,
\* and the three leaf hashes differ
C3_Witness ==
  /\ built = "ok" /\ held.op = "NewOnPermutation" /\ options.SortLeaves
  /\ len(input) = 3
  /\ held.arg # input
  /\ Cardinality(LeafHashesOfTree) = 3
  /\ \E v \in DOMAIN Values : Values[v].TreeIndex # len(Tree) - len(input) + v
  /\ held.val = Root

\* C4: a tree constructed with the zero-value MerkleTreeOptions (SortLeaves not
\* set) is built sorted, so reordering the input values does not change the
\* root.
C4_DefaultSortsLeaves ==
  (built = "ok" /\ held.op = "NewOnPermutation" /\ options = [SortLeaves |-> FALSE])
    => (held.err = "nil" /\ held.val = Root)

\* C5: StandardNodeHash(a, b) = StandardNodeHash(b, a) for all valid 32-byte
\* nodes a and b.
C5_NodeHashCommutative ==
  (/\ res.op = "StandardNodeHash"
   /\ IsValidMerkleNode(input[0])
   /\ IsValidMerkleNode(input[1]))
    => res.val[1] = res.val[2]

\* C6: the proof generated for an input value v does not verify a value w with
\* another leaf hash: Verify(w, proof) and the standalone verification against
\* the root of the tree return false, and no error.
C6_ProofRejectsOtherValue ==
  (/\ res.op \in {"Verify", "VerifyStandalone"}
   /\ held.arg \in InputValueSet
   /\ res.arg.t # "int"
   /\ StandardLeafHash(res.arg) # StandardLeafHash(held.arg))
    => (res.err = "nil" /\ ~res.val)

\* C7: multiproof round trip.  For every built tree and every non-empty list
\* of distinct leaf positions in strictly descending order, GetMultiProof
\* returns a multiproof and ProcessMultiProof of it returns the root, with no
\* error.
StrictlyDescending(l) == \A i \in 1 .. Len(l) - 1 : l[i] > l[i + 1]

C7_MultiProofRoundTrip ==
  /\ (held.op = "GetMultiProof" /\ Len(held.arg) > 0 /\ StrictlyDescending(held.arg))
       => held.err = "nil"
  /\ (res.op = "ProcessMultiProof" /\ StrictlyDescending(held.arg))
       => (res.err = "nil" /\ res.val = Root)

\* two of three leaves, in descending order: the multiproof has a flag of each
\* kind and one proof node
C7_Witness ==
  /\ res.op = "ProcessMultiProof"
  /\ len(input) = 3
  /\ Len(held.arg) = 2
  /\ StrictlyDescending(held.arg)
  /\ Len(held.val.Proof) = 1
  /\ \E i, j \in 1 .. Len(held.val.ProofFlags) :
       held.val.ProofFlags[i] /\ ~held.val.ProofFlags[j]
  /\ res.val = Root

\* the leaf hashes of the values the tree was built from
LeafHashesOfInput == {StandardLeafHash(input[i]) : i \in DOMAIN input}

C9_EmptyInputFails ==
  /\ MakeMerkleTree(<<>>) = Fail("ErrEmptyTree")
  /\ \A o \in [SortLeaves : BOOLEAN] :
       \A order \in LeafOrders(<<>>, o) :
         PrepareMerkleTree(<<>>, o, order)
           = [tree |-> <<>>, values |-> <<>>, err |-> "ErrEmptyTree"]
  /\ (built # "no" /\ len(input) = 0)
       => (/\ built = "ErrEmptyTree"
           /\ res.err = "ErrEmptyTree"
           /\ Tree = <<>>
           /\ Values = <<>>)

\* a constructor ran on no values
C9_Witness ==
  /\ len(input) = 0
  /\ res.op = "New"
  /\ built = "ErrEmptyTree"

\* C10: a tree built from n >= 1 leaves is an array of length 2n-1 in which
\* exactly the last n indices are leaves (left child out of bounds) and
\* exactly the first n-1 indices are internal nodes with both children in
\* bounds; index 0 is the root.
C10_TreeShape ==
  built = "ok" =>
    LET n == len(input)
    IN /\ n >= 1
       /\ len(Tree) = 2 * n - 1
       /\ DOMAIN Tree = 0 .. 2 * n - 2
       /\ Root = Tree[0]
       /\ \A i \in DOMAIN Tree :
            /\ IsLeafNode(Tree, i) <=> i >= n - 1
            /\ IsInternalNode(Tree, i) <=> i < n - 1
            /\ IsInternalNode(Tree, i) =>
                 /\ IsTreeNode(Tree, LeftChildIndex(i))
                 /\ IsTreeNode(Tree, RightChildIndex(i))

\* a tree of three leaves: two internal nodes above three leaves
C10_Witness ==
  /\ built = "ok"
  /\ len(input) = 3
  /\ len(Tree) = 5
  /\ IsInternalNode(Tree, 1)
  /\ IsLeafNode(Tree, 2)


\* the Tree and Values that Dump of the tree's kind exposes
DumpedTable ==
  IF typeT = "BytesLike"
  THEN [Tree |-> SimpleDump.Tree, Values |-> SimpleDump.Values]
  ELSE [Tree |-> StandardDump.Tree, Values |-> StandardDump.Values]

\* C11: indexed-value table.  For every built tree and every input position
\* i, Values[i].Value is the i-th input value, Values[i].TreeIndex is a leaf
\* position of the tree array, distinct input positions have distinct
\* TreeIndex, and Tree[Values[i].TreeIndex] is the leaf hash of that value;
\* Dump exposes exactly this table, with tree[0] the root.
C11_ValuesTable ==
  built = "ok" =>
    /\ DOMAIN Values = DOMAIN input
    /\ \A i \in DOMAIN input :
         /\ Values[i].Value = input[i]
         /\ IsLeafNode(Tree, Values[i].TreeIndex)
         /\ \A j \in DOMAIN input : i # j => Values[i].TreeIndex # Values[j].TreeIndex
         /\ Tree[Values[i].TreeIndex] = StandardLeafHash(input[i])
    /\ DumpedTable = [Tree |-> Tree, Values |-> Values]
    /\ DumpedTable.Tree[0] = Root

\* C12: GetProof(i) with an int i, 0 <= i < n, returns the proof of the i-th
\* input value (input order, not array position), also when the leaves were
\* sorted: Verify(values[i], GetProof(i)) is true for every such i.
C12_ProofByIndex ==
  (/\ held.op = "GetProof"
   /\ held.arg.t = "int"
   /\ held.arg.d[1] >= 0 /\ held.arg.d[1] < len(input))
    => /\ held.err = "nil"
       /\ (res.op = "Verify" /\ res.arg = input[held.arg.d[1]])
            => (res.err = "nil" /\ res.val)

\* C13: the standalone verification compares against the canonical form of
\* the supplied root: whenever processProof recomputes a root, it returns true
\* exactly when that root denotes the same 32 bytes as the supplied root,
\* whatever the representation of the supplied root (raw bytes, 0x-hex text in
\* lower case or in upper case).
C13_StandaloneCanonicalRoot ==
  (/\ res.op = "VerifyStandalone"
   /\ ProcessProof(HS(StandardLeafHash(res.arg)),
                   [k \in 1 .. Len(held.val) |-> HS(held.val[k])]).err = "nil")
    => /\ res.err = "nil"
       /\ res.val <=>
            ToBytes(res.root).val
              = ToBytes(HS(ProcessProof(HS(StandardLeafHash(res.arg)),
                                        [k \in 1 .. Len(held.val) |-> HS(held.val[k])]).val)).val

\* the leaf hashes are in the last n places of the array, as hex text, and
\* every internal node is the node hash of its two children
LeavesThenNodeHashes ==
  /\ len(Tree) = 2 * len(input) - 1
  /\ \A v \in DOMAIN input :
       /\ Values[v].TreeIndex >= len(input) - 1
       /\ Tree[Values[v].TreeIndex] = ToHex(HS(StandardLeafHash(input[v]))).val
  /\ \A i \in DOMAIN Tree :
       IsInternalNode(Tree, i) =>
         Tree[i] = StandardNodeHash(HS(Tree[LeftChildIndex(i)]),
                                    HS(Tree[RightChildIndex(i)]))

\* C14 (as stated): after placing the leaf hashes in the last n positions of
\* the 2n-1 array, the builder fills internal nodes from index 2n-3 down to 0,
\* in decreasing index order, each as
\* tree[i] = nodeHash(tree[left(i)], tree[right(i)]).
C14_FillFromTwoNMinusThree ==
  built = "ok" =>
    /\ LeavesThenNodeHashes
    /\ FillIndices(FillStart(Tree, input))
         = [k \in 1 .. 2 * len(input) - 2 |-> 2 * len(input) - 2 - k]

\* C14 (amended): after placing the leaf hashes in the last n positions of
\* the 2n-1 array, the builder fills internal nodes from index n-2 down to 0,
\* in decreasing index order, each as
\* tree[i] = nodeHash(tree[left(i)], tree[right(i)]).
C14_FillFromNMinusTwo ==
  built = "ok" =>
    /\ LeavesThenNodeHashes
    /\ FillIndices(FillStart(Tree, input))
         = [k \in 1 .. len(input) - 1 |-> len(input) - 1 - k]

\* a tree of three leaves: the loop filled index 1 from the leaves 3 and 4,
\* then the root from node 1 and leaf 2
C14_Witness ==
  /\ built = "ok"
  /\ len(input) = 3
  /\ FillIndices(FillStart(Tree, input)) = <<1, 0>>
  /\ Tree[1] = StandardNodeHash(HS(Tree[3]), HS(Tree[4]))
  /\ Tree[0] = StandardNodeHash(HS(Tree[1]), HS(Tree[2]))
  /\ Tree[1] # Tree[0]

RECURSIVE Log2Floor(_)
Log2Floor(x) == IF x <= 1 THEN 0 ELSE 1 + Log2Floor(x \div 2)

\* i_k: the k-th index on the path from i to the root
RECURSIVE PathIndex(_, _)
PathIndex(i, k) == IF k = 0 THEN i ELSE ParentIndex(PathIndex(i, k - 1))

\* C16: getProof for a leaf at tree index i returns the sibling hashes along
\* the path to the root, bottom-up: element k is tree[sibling(i_k)] with
\* i_0 = i and i_(k+1) = parent(i_k), and the proof has exactly
\* floor(log2(i+1)) elements; for a single-leaf tree the proof is empty and
\* processProof(leafHash, []) equals leafHash equals the root.
C16_ProofIsSiblingPath ==
  /\ (held.op = "CoreGetProof" /\ IsLeafNode(Tree, held.arg.d[1]))
       => /\ held.err = "nil"
          /\ Len(held.val) = Log2Floor(held.arg.d[1] + 1)
          /\ \A k \in 1 .. Len(held.val) :
               held.val[k] = Tree[SiblingIndex(PathIndex(held.arg.d[1], k - 1))]
  /\ (held.op = "CoreGetProof" /\ len(input) = 1 /\ held.arg.d[1] = 0)
       => /\ held.val = <<>>
          /\ StandardLeafHash(input[0]) = Root
          /\ (res.op = "ProcessProof" /\ res.proof = <<>>
                /\ res.arg = HS(StandardLeafHash(input[0])))
               => (res.err = "nil" /\ res.val = Root)

\* C17: core GetProof(tree, index) fails with ErrNotLeafNode and returns no
\* proof for every index that names no leaf of the array (internal nodes,
\* negative indices, indices >= len(tree)); it succeeds for every leaf index.
C17_NotLeafError ==
  held.op = "CoreGetProof" =>
    IF held.arg.d[1] >= len(input) - 1 /\ held.arg.d[1] <= 2 * len(input) - 2
    THEN held.err = "nil"
    ELSE held.err = "ErrNotLeafNode" /\ held.val = <<>>

\* on one tree of three leaves the index was an internal node and was refused
C17_Witness ==
  /\ held.op = "CoreGetProof"
  /\ len(input) = 3
  /\ held.arg.d[1] = 1
  /\ IsInternalNode(Tree, 1)
  /\ held.err = "ErrNotLeafNode"

\* C18: ProcessProof fails with ErrInvalidNode and returns no root whenever
\* the leaf or any proof element is not exactly 32 bytes, wherever in the
\* proof the element is (all are checked before the first hash).
C18_InvalidNode ==
  (/\ res.op = "ProcessProof"
   /\ \/ ~(ToBytes(res.arg).err = "nil" /\ Len(ToBytes(res.arg).val) = NodeLen)
      \/ \E k \in 1 .. Len(res.proof) :
           ~(ToBytes(res.proof[k]).err = "nil" /\ Len(ToBytes(res.proof[k]).val) = NodeLen))
    => (res.err = "ErrInvalidNode" /\ res.val = <<>>)

\* a proof of two elements with a valid leaf and a valid first element, whose
\* last element is 31 bytes, was refused
C18_Witness ==
  /\ res.op = "ProcessProof"
  /\ Len(res.proof) = 2
  /\ IsValidMerkleNode(res.arg)
  /\ IsValidMerkleNode(res.proof[1])
  /\ res.proof[2] = Bytes(Repeat(17, NodeLen - 1))
  /\ res.err = "ErrInvalidNode"

\* the queue the walk of GetMultiProof stops with on the list the caller gave
FinalQueue ==
  MultiWalk([i \in DOMAIN Tree |-> HS(Tree[i])], held.arg, <<>>, <<>>).stack

\* C19 (as stated): the walk of GetMultiProof terminates for every non-empty
\* list of in-range indices, and when it stops only the root remains in the
\* queue (the queue is exactly [0]).
C19_QueueIsRootOnly ==
  (held.op = "GetMultiProof" /\ Len(held.arg) > 0)
    => (held.err = "nil" /\ FinalQueue = <<0>>)

\* C19 (amended): the walk of GetMultiProof terminates for every non-empty
\* list of in-range leaf indices, with the root at the head of the queue; when
\* the list is in strictly descending order (no repeats), only the root
\* remains in the queue (the queue is exactly [0]).
C19_QueueHeadIsRoot ==
  (held.op = "GetMultiProof" /\ Len(held.arg) > 0)
    => /\ held.err = "nil"
       /\ Len(FinalQueue) >= 1
       /\ FinalQueue[1] = 0
       /\ StrictlyDescending(held.arg) => FinalQueue = <<0>>

\* the three leaves of a tree in descending order: two rounds, the queue ends
\* as [0]
C19_Witness ==
  /\ held.op = "GetMultiProof"
  /\ len(input) = 3
  /\ held.arg = <<4, 3, 2>>
  /\ held.err = "nil"
  /\ Len(held.val.ProofFlags) = 2
  /\ FinalQueue = <<0>>

\* C20: GetMultiProof does not validate the order of the indices: for every
\* non-empty list of in-range leaf indices, in any order, with or without
\* repeats, it returns a multiproof and no error; and for some such lists -
\* two leaves of a 3-leaf tree in ascending order, the first being leaf 2 -
\* ProcessMultiProof of the returned multiproof fails or gives a value that is
\* not the root.
C20_OrderNotValidated ==
  /\ (held.op = "GetMultiProof" /\ Len(held.arg) > 0)
       => /\ held.err = "nil"
          /\ Len(held.val.Leaves) = Len(held.arg)
          /\ \A k \in 1 .. Len(held.arg) : held.val.Leaves[k] = Tree[held.arg[k]]
  /\ (res.op = "ProcessMultiProof" /\ len(input) = 3
        /\ held.arg \in {<<2, 3>>, <<2, 4>>})
       => (res.err # "nil" \/ res.val # Root)

\* leaves 2 and 4 of a 3-leaf tree in ascending order: GetMultiProof returned
\* a multiproof, ProcessMultiProof refused it
C20_Witness ==
  /\ res.op = "ProcessMultiProof"
  /\ len(input) = 3
  /\ held.arg = <<2, 4>>
  /\ held.err = "nil"
  /\ res.err = "ErrInvalidMultiProof"

\* every flag step finds the elements it must pop - a from results, b from
\* results when the flag is true and from sideProof when it is false - and
\* after the last flag exactly one element remains; results and sideProof hold
\* s and p elements before flag k
RECURSIVE FlagsRun(_, _, _, _)
FlagsRun(s, p, flags, k) ==
  IF k > Len(flags) THEN s + p = 1
  ELSE IF flags[k] THEN s >= 2 /\ FlagsRun(s - 1, p, flags, k + 1)
  ELSE s >= 1 /\ p >= 1 /\ FlagsRun(s, p - 1, flags, k + 1)

\* the flags of the multiproof the caller holds run through
HeldFlagsRun ==
  FlagsRun(Len(held.val.Leaves), Len(held.val.Proof), held.val.ProofFlags, 1)

\* every leaf and every proof element of the multiproof is hex text
HeldAllHex ==
  /\ \A k \in 1 .. Len(held.val.Leaves) : ToHex(HS(held.val.Leaves[k])).err = "nil"
  /\ \A k \in 1 .. Len(held.val.Proof) : ToHex(HS(held.val.Proof[k])).err = "nil"

\* C21 (as stated): ProcessMultiProof returns a root if and only if every
\* flag step finds the elements it must pop and after the last flag exactly
\* one element remains across results and sideProof; in every other case it
\* returns ErrInvalidMultiProof (and it never reads from an empty queue).
C21_RootIffFlagsRun ==
  res.op = "ProcessMultiProof" =>
    IF HeldFlagsRun
    THEN res.err = "nil"
    ELSE res.err = "ErrInvalidMultiProof" /\ res.val = <<>>

\* C21 (amended): ProcessMultiProof returns a root only if every flag step
\* finds the elements it must pop and after the last flag exactly one element
\* remains across results and sideProof, and it returns one whenever, in
\* addition, every leaf and proof element is hex text; otherwise it returns no
\* root and fails with ErrInvalidMultiProof, or with the error of the hex
\* conversion when an element it popped is not hex text; it never reads from
\* an empty queue.
C21_RootIffFlagsRunOnHex ==
  res.op = "ProcessMultiProof" =>
    /\ res.err = "nil" => HeldFlagsRun
    /\ (HeldFlagsRun /\ HeldAllHex) => res.err = "nil"
    /\ res.err # "nil" =>
         /\ res.val = <<>>
         /\ res.err \in {"ErrInvalidMultiProof", "invalid hex string"}
         /\ HeldAllHex => res.err = "ErrInvalidMultiProof"

\* two leaves, one proof element and two flags, all hex text: a root came
\* back; it is the hash of the side proof element with the hash of the leaves
C21_Witness ==
  /\ res.op = "ProcessMultiProof"
  /\ held.op = "MultiProof"
  /\ Len(held.val.Leaves) = 2
  /\ Len(held.val.Proof) = 1
  /\ held.val.ProofFlags = <<TRUE, FALSE>>
  /\ HeldAllHex
  /\ res.err = "nil"
  /\ res.val = StandardNodeHash(
                 HS(StandardNodeHash(HS(held.val.Leaves[1]), HS(held.val.Leaves[2]))),
                 HS(held.val.Proof[1]))

\* C22: the index arithmetic is consistent.  For every i > 0,
\* sibling(sibling(i)) = i, parent(sibling(i)) = parent(i) and
\* {i, sibling(i)} = {left(parent(i)), right(parent(i))}; for every i >= 0,
\* parent(left(i)) = parent(right(i)) = i; parent(i) = floor((i-1)/2), and
\* sibling(i) = i-1 for even i, i+1 for odd i.
C22_IndexArithmetic ==
  res.op = "IndexArithmetic" =>
    /\ res.arg.d[1] > 0 =>
         /\ SiblingIndex(res.val.sibling) = res.arg.d[1]
         /\ ParentIndex(res.val.sibling) = res.val.parent
         /\ {res.arg.d[1], res.val.sibling}
              = {LeftChildIndex(res.val.parent), RightChildIndex(res.val.parent)}
         /\ 2 * res.val.parent <= res.arg.d[1] - 1
         /\ res.arg.d[1] - 1 < 2 * res.val.parent + 2
         /\ res.val.sibling = IF res.arg.d[1] % 2 = 0 THEN res.arg.d[1] - 1
                               ELSE res.arg.d[1] + 1
    /\ ParentIndex(res.val.left) = res.arg.d[1]
    /\ ParentIndex(res.val.right) = res.arg.d[1]
    /\ res.val.left = 2 * res.arg.d[1] + 1
    /\ res.val.right = 2 * res.arg.d[1] + 2

\* an even index above the first level: its sibling is the index before it and
\* its parent is not the root
C22_Witness ==
  /\ res.op = "IndexArithmetic"
  /\ res.arg.d[1] = 6
  /\ res.val.sibling = 5
  /\ res.val.parent = 2
  /\ res.val.left = 13

\* C23: Validate accepts a tree (returns no error) if and only if the tree
\* array is non-empty, every index i with right(i) in bounds has
\* tree[i] = nodeHash(tree[left(i)], tree[right(i)]), and every indexed value
\* has leafHash(value) = tree[treeIndex].
C23_ValidateIff ==
  res.op = "Validate" =>
    (res.err = "nil" <=>
       /\ len(Tree) > 0
       /\ \A i \in DOMAIN Tree :
            RightChildIndex(i) \in DOMAIN Tree =>
              Tree[i] = StandardNodeHash(HS(Tree[LeftChildIndex(i)]),
                                         HS(Tree[RightChildIndex(i)]))
       /\ \A v \in DOMAIN Values :
            StandardLeafHash(Values[v].Value) = Tree[Values[v].TreeIndex])

\* every value of a 3-value tree is at its leaf, but an internal node of the
\* array is not the hash of its children: Validate refused the tree
C23_Witness ==
  /\ res.op = "Validate"
  /\ len(input) = 3 /\ len(Tree) = 5
  /\ \A v \in DOMAIN Values :
       StandardLeafHash(Values[v].Value) = Tree[Values[v].TreeIndex]
  /\ Tree[1] # StandardNodeHash(HS(Tree[3]), HS(Tree[4]))
  /\ res.err = "merkle tree structure is invalid"

\* the input positions whose value is of none of the types the packed encoder
\* supports (string, []byte, the fixed-width integers)
Unencodable ==
  {i \in DOMAIN input :
     input[i].t \notin {"string", "bytes", "uint8", "uint16", "uint32", "uint64",
                        "int8", "int16", "int32", "int64"}}

\* C24: on an encoding failure the hashing routines propagate no error:
\* StandardLeafHash of a value whose type the packed encoder does not support
\* is the empty placeholder hash, and a build over such values returns a tree
\* and no error.
C24_EmptyHashNoError ==
  /\ \A i \in Unencodable : StandardLeafHash(input[i]) = <<>>
  /\ (built # "no" /\ Unencodable # {})
       => /\ built = "ok"
          /\ res.op = "New" => res.err = "nil"
          /\ len(Tree) = 2 * len(input) - 1
          /\ \A i \in Unencodable : Tree[Values[i].TreeIndex] = Prefix0x

\* a tree was built from two structs: both leaves are "0x"
C24_Witness ==
  /\ built = "ok"
  /\ res.op = "New" /\ res.err = "nil"
  /\ typeT = "struct"
  /\ len(input) = 2
  /\ Unencodable = {0, 1}
  /\ Tree[1] = Prefix0x /\ Tree[2] = Prefix0x

C26_CodecCanonical ==
  (res.op = "Codec" /\ res.val.hex.err = "nil") =>
    /\ res.val.bytes.err = "nil"
    /\ res.val.hex.val = Prefix0x \o HexEncodeToString(res.val.bytes.val)
    /\ res.arg.t = "bytes" => (res.val.back.err = "nil" /\ res.val.back.val = res.arg.d)

\* the queues and the pushed parents of the walk on the list the caller gave
HeldTrace == WalkTrace(held.arg, <<>>, <<>>)

\* C27: in GetMultiProof, when the indices are distinct leaf positions in
\* strictly descending order, the queue is strictly descending before every
\* iteration; hence the sibling of the index at the front, when it is pending,
\* is the next in the queue, every parent is pushed at most once, and on
\* return the number of false flags is len(proof) and
\* len(leaves) + len(proof) = len(proofFlags) + 1.
C27_QueueDescending ==
  (held.op = "GetMultiProof" /\ Len(held.arg) > 0 /\ StrictlyDescending(held.arg))
    => /\ held.err = "nil"
       /\ HeldTrace.queues[Len(HeldTrace.queues)] = FinalQueue
       /\ Len(HeldTrace.pushed) = Len(held.val.ProofFlags)
       /\ \A r \in 1 .. Len(HeldTrace.queues) :
            /\ StrictlyDescending(HeldTrace.queues[r])
            /\ \A k \in 2 .. Len(HeldTrace.queues[r]) :
                 (HeldTrace.queues[r][1] > 0
                    /\ HeldTrace.queues[r][k] = SiblingIndex(HeldTrace.queues[r][1]))
                   => k = 2
       /\ \A a, b \in 1 .. Len(HeldTrace.pushed) :
            a # b => HeldTrace.pushed[a] # HeldTrace.pushed[b]
       /\ Cardinality({k \in 1 .. Len(held.val.ProofFlags) : ~held.val.ProofFlags[k]})
            = Len(held.val.Proof)
       /\ Len(held.val.Leaves) + Len(held.val.Proof) = Len(held.val.ProofFlags) + 1

\* the first and the last leaf of a 3-leaf tree: the queue goes [4, 2],
\* [2, 1], [0]; one sibling came from the tree, one from the queue
C27_Witness ==
  /\ held.op = "GetMultiProof"
  /\ len(input) = 3
  /\ held.arg = <<4, 2>>
  /\ HeldTrace.queues = <<<<4, 2>>, <<2, 1>>, <<0>>>>
  /\ HeldTrace.pushed = <<1, 0>>
  /\ held.val.ProofFlags = <<FALSE, TRUE>>
  /\ Len(held.val.Proof) = 1

\* C28: ProcessMultiProof rejects a multiproof that names no leaf: whenever
\* multiproof.Leaves is empty the call fails with ErrInvalidMultiProof, so a
\* returned root is never an element copied unhashed from the side proof.
C28_NoLeafRejected ==
  (res.op = "ProcessMultiProof" /\ Len(held.val.Leaves) = 0)
    => /\ res.err = "ErrInvalidMultiProof"
       /\ res.val = <<>>

\* what the code does with them: no leaf, no flag and one element of the side
\* proof come back as that element, whatever it is, with no error
C28_SideProofReturned ==
  /\ res.op = "ProcessMultiProof"
  /\ held.val = MultiProof(<<>>, <<<<122, 122>>>>, <<>>)
  /\ res.err = "nil"
  /\ res.val = <<122, 122>>

\* C29: every tree array accepted by Validate has every internal node (every
\* index whose left child is in bounds) equal to nodeHash of its two
\* children; an array in which some index has a left child but no right
\* child (an array of even length) is rejected.
C29_AcceptedIsFullTree ==
  (res.op = "Validate" /\ res.err = "nil")
    => /\ len(Tree) % 2 = 1
       /\ \A i \in DOMAIN Tree :
            LeftChildIndex(i) \in DOMAIN Tree =>
              /\ RightChildIndex(i) \in DOMAIN Tree
              /\ Tree[i] = StandardNodeHash(HS(Tree[LeftChildIndex(i)]),
                                            HS(Tree[RightChildIndex(i)]))

\* what the code does with one: the array of a 3-value tree with one more
\* node at its end has six nodes, index 2 has a left child and no right
\* child, and Validate accepts it
C29_EvenLengthAccepted ==
  /\ res.op = "Validate"
  /\ len(input) = 3 /\ len(Tree) = 6
  /\ LeftChildIndex(2) \in DOMAIN Tree
  /\ RightChildIndex(2) \notin DOMAIN Tree
  /\ res.err = "nil"

\* the values with the two at positions a and b exchanged
Exchanged(values, a, b) ==
  [i \in DOMAIN values |-> IF i = a THEN values[b] ELSE IF i = b THEN values[a] ELSE values[i]]

\* the tree array of the build, without sorting, over the values the caller
\* reordered
PermutedTree ==
  PrepareMerkleTree(held.arg, options, [i \in DOMAIN held.arg |-> i]).tree

\* the pairs of input positions whose leaves share a parent
SiblingLeaves ==
  {ab \in (DOMAIN input) \X (DOMAIN input) :
     /\ ab[1] # ab[2]
     /\ SiblingIndex(len(input) - 1 + ab[1]) = len(input) - 1 + ab[2]}

\* C30: with SortLeaves disabled, leaf i of the input is placed at tree index
\* n-1+i, and exchanging two input values whose leaves share a parent leaves
\* the root and every internal node unchanged; in particular the two orders
\* of a 2-value input give the same root.
C30_SiblingExchange ==
  (built = "ok" /\ held.op = "NewOnPermutation" /\ ~options.SortLeaves)
    => /\ \A i \in DOMAIN input :
            /\ Values[i].Value = input[i]
            /\ Values[i].TreeIndex = len(input) - 1 + i
            /\ Tree[len(input) - 1 + i] = ToHex(HS(StandardLeafHash(input[i]))).val
       /\ \A ab \in SiblingLeaves :
            held.arg = Exchanged(input, ab[1], ab[2])
              => /\ held.err = "nil"
                 /\ held.val = Root
                 /\ \A i \in 0 .. len(input) - 2 : PermutedTree[i] = Tree[i]
       /\ len(input) = 2 => (held.err = "nil" /\ held.val = Root)

\* three values with three leaf hashes, the last two exchanged: their leaves
\* are tree[3] and tree[4], the children of tree[1], and the two arrays differ
\* in these two places only
C30_Witness ==
  /\ built = "ok" /\ held.op = "NewOnPermutation" /\ ~options.SortLeaves
  /\ len(input) = 3
  /\ Cardinality(LeafHashesOfTree) = 3
  /\ <<1, 2>> \in SiblingLeaves
  /\ held.arg = Exchanged(input, 1, 2)
  /\ PermutedTree[3] = Tree[4] /\ PermutedTree[4] = Tree[3]
  /\ PermutedTree[3] # Tree[3]
  /\ PermutedTree[1] = Tree[1]
  /\ held.val = Root

====
